---- MODULE Spec2Model ----
(***************************************************************************)
(* News Q&A service: the REST handlers of main.py (search with generation  *)
(* fallback, generate, manual indexing, delete-all), the generation        *)
(* pipeline of llm_service.py / news_service.py, the Elasticsearch client  *)
(* of elasticsearch_client.py and the semantic cache of semantic_cache.py. *)
(*                                                                         *)
(* Conventions.  A query, a topic or an exception text, of which the       *)
(* service reads only the length, is held by its length; a cache query is  *)
(* a sequence of one-character strings.  An LLM output text is a sequence  *)
(* of tokens                                                               *)
(* ("Q1:", "A1:", "**", words, one blank); every regex boundary of         *)
(* parse_qa_pairs falls on a token boundary for this alphabet.  A message  *)
(* built by an f-string is the record of its literal prefix and of the     *)
(* interpolated detail.  Scores are in thousandths, similarities and       *)
(* thresholds in hundredths.                                               *)
(*                                                                         *)
(* Specifications.  Spec: the REST handlers, one request at a time.        *)
(* CacheSpec: one SemanticCache object, its file, and its reconstruction   *)
(* from the file.  ThreadSpec: the same object called by two threads.      *)
(* ToolSpec: the cached news tool of langchain_test.py over that object.   *)
(* BandSpec and ParseSpec: the banding of a hit and parse_qa_pairs, each   *)
(* applied to every argument of a bounded set.                             *)
(***************************************************************************)
EXTENDS Integers, Sequences, FiniteSets, TLC

VARIABLES
    index,        \* documents held by the Elasticsearch index, oldest first
    request,      \* the request being served last
    response,     \* the HTTP response it got
    calls,        \* external calls made while serving it, in order
    searchResult, \* what Elasticsearch did to its search, and es_client.search
    genResult,    \* what the network and the LLM did, and generate_qa_from_news
    writer,       \* history: the handler that wrote each document of index
    cache,        \* SemanticCache.cache: the entry list
    hits,         \* SemanticCache.hits
    misses,       \* SemanticCache.misses
    threshold,    \* SemanticCache.threshold, in hundredths
    disk,         \* content of the cache file
    lookup,       \* the last cache operation and what it returned
    flushFailures, \* history: flushes of the cache file that failed
    pc,           \* where each concurrent caller of the cache is
    local,        \* the local values of each concurrent caller
    completed,    \* history: lookups the concurrent callers have completed
    held,         \* history: the states the cache in memory has held
    _cache,       \* langchain_test._cache: None, or the cache set for the tool
    input,        \* the argument a function is applied to on its own
    output        \* what it returned

apiVars   == <<index, request, response, calls, searchResult, genResult, writer>>
cacheVars == <<cache, hits, misses, threshold, disk, lookup, flushFailures>>
threadVars == <<pc, local, completed, held>>
toolVars  == <<_cache>>
pureVars  == <<input, output>>
vars      == <<index, request, response, calls, searchResult, genResult, writer,
               cache, hits, misses, threshold, disk, lookup, flushFailures,
               pc, local, completed, held, _cache, input, output>>

\* Optional[T]: None, or a value
None    == <<>>
Some(x) == <<x>>

-----------------------------------------------------------------------------
(* Bounds of the model *)

MaxDocs    == 2     \* documents the index may hold
MaxFeed    == 1     \* entries the RSS feed may return
MaxEntries == 2     \* entries the cache may hold
MaxLookups == 2     \* lookups counted by the cache
MaxFlushFailures == 1   \* flushes of the cache file that fail
MaxRawScore == 10100    \* largest raw score of a hit, in thousandths
MaxPairs   == 2     \* pairs written in a text given to the parser

(* Program constants *)

QueryMaxLen    == 500
TopKMax        == 50
TopicMaxLen    == 200
DaysMax        == 30
NumPairsMax    == 10
SearchDays     == 7
SearchNumPairs == 5
NewsMaxResults == 10
HighScore      == 10000
MediumScore    == 5000
DefaultThreshold == 85
ToolMaxResults == 10

-----------------------------------------------------------------------------
(* Strings *)

\* The str of n characters, its len() and the concatenation of two
Str(n) == [len |-> n]
StrLen(s) == s.len
Concat(s, t) == Str(s.len + t.len)

Min(a, b) == IF a <= b THEN a ELSE b

IsSpace(c) == c = " "

RECURSIVE LStrip(_)
LStrip(s) == IF s # <<>> /\ IsSpace(Head(s)) THEN LStrip(Tail(s)) ELSE s

RECURSIVE RStrip(_)
RStrip(s) ==
    IF s # <<>> /\ IsSpace(s[Len(s)]) THEN RStrip(SubSeq(s, 1, Len(s) - 1)) ELSE s

\* str.strip()
Strip(s) == RStrip(LStrip(s))

\* f"...{detail}": the literal part and the interpolated part
Msg(prefix, detail) == [prefix |-> prefix, detail |-> detail]
NonEmptyText(m) == m.prefix # "" \/ StrLen(m.detail) > 0

-----------------------------------------------------------------------------
(* parse_qa_pairs: the two regular expressions, on token sequences *)

QTags == {"Q1:", "Q2:"}
ATags == {"A1:", "A2:"}
TagLabel(t) == IF t \in {"Q1:", "A1:"} THEN 1 ELSE 2

\* Tokens a marker takes: Qn: is one token, **Qn:** is three
MarkerWidth(emph) == IF emph THEN 3 ELSE 1

\* The label of the marker (a tag of `tags`, plain or emphasized) that starts at
\* position p of text, 0 when none starts there
MarkerAt(text, p, tags, emph) ==
    IF emph
    THEN IF p >= 1 /\ p + 2 <= Len(text) /\ text[p] = "**"
            /\ text[p + 1] \in tags /\ text[p + 2] = "**"
         THEN TagLabel(text[p + 1]) ELSE 0
    ELSE IF p >= 1 /\ p <= Len(text) /\ text[p] \in tags
         THEN TagLabel(text[p]) ELSE 0

\* \s* taken greedily: the number of blanks from position p on
RECURSIVE SpacesFrom(_, _)
SpacesFrom(text, p) ==
    IF p <= Len(text) /\ IsSpace(text[p]) THEN 1 + SpacesFrom(text, p + 1) ELSE 0

\* (.+?)(?=Qn:|$), group 3 taken lazily: the first position from e on where a
\* question marker starts, or the end of the text
RECURSIVE AnswerEnd(_, _, _)
AnswerEnd(text, e, emph) ==
    IF e > Len(text) \/ MarkerAt(text, e, QTags, emph) # 0 THEN e
    ELSE AnswerEnd(text, e + 1, emph)

\* \s*(.+?)(?=Qn:|$) from position b, the first position after the answer
\* marker: [from, to] of group 3 (to is where the match ends, exclusive), or
\* NoSpan.  \s* gives back one blank when nothing else is left for (.+?).
NoSpan == [from |-> 0, to |-> 0]

AnswerSpan(text, b, emph) ==
    IF b > Len(text) THEN NoSpan
    ELSE LET n    == Len(text)
             sp   == SpacesFrom(text, b)
             from == IF b + sp <= n THEN b + sp ELSE n
         IN  [from |-> from, to |-> AnswerEnd(text, from + 1, emph)]

\* \s*An: and the rest of the pattern match from position j: the answer marker
\* of label l starts after the blanks at j, and an answer follows it
RestMatches(text, j, l, emph) ==
    LET a == j + SpacesFrom(text, j)
    IN  /\ MarkerAt(text, a, ATags, emph) = l
        /\ a + MarkerWidth(emph) <= Len(text)

\* (.+?) of group 2 taken lazily: the first position from j on where the rest
\* matches, 0 when there is none
RECURSIVE QuestionEnd(_, _, _, _)
QuestionEnd(text, j, l, emph) ==
    IF j > Len(text) THEN 0
    ELSE IF RestMatches(text, j, l, emph) THEN j
    ELSE QuestionEnd(text, j + 1, l, emph)

\* Qn:\s*(.+?) from position b, the first position after the question marker:
\* \s* takes sp blanks, then fewer when group 2 finds no end; [from, to] of
\* group 2, or NoSpan
RECURSIVE QuestionSpan(_, _, _, _, _)
QuestionSpan(text, b, sp, l, emph) ==
    IF sp < 0 THEN NoSpan
    ELSE IF QuestionEnd(text, b + sp + 1, l, emph) # 0
    THEN [from |-> b + sp, to |-> QuestionEnd(text, b + sp + 1, l, emph)]
    ELSE QuestionSpan(text, b, sp - 1, l, emph)

\* One match of the pattern at p, as the engine finds it: [question, answer, to],
\* or NoMatch
NoMatch == [question |-> <<>>, answer |-> <<>>, to |-> 0]

MatchOf(text, q, an) ==
    [question |-> SubSeq(text, q.from, q.to - 1),
     answer   |-> SubSeq(text, an.from, an.to - 1),
     to       |-> an.to]

MatchAt(text, p, emph) ==
    IF MarkerAt(text, p, QTags, emph) = 0 THEN NoMatch
    ELSE LET w == MarkerWidth(emph)
             q == QuestionSpan(text, p + w, SpacesFrom(text, p + w),
                               MarkerAt(text, p, QTags, emph), emph)
         IN  IF q = NoSpan THEN NoMatch
             ELSE MatchOf(text, q,
                     AnswerSpan(text, q.to + SpacesFrom(text, q.to) + w, emph))

\* a search that stops at the first match, as re.search would
RECURSIVE FindAll_FirstOnly(_, _, _)
FindAll_FirstOnly(text, p, emph) ==
    IF p > Len(text) THEN <<>>
    ELSE LET m == MatchAt(text, p, emph)
         IN  IF m = NoMatch THEN FindAll_FirstOnly(text, p + 1, emph)
             ELSE <<m>>

\* re.findall: the non-overlapping matches from position p on, left to right
RECURSIVE FindAll(_, _, _)
FindAll(text, p, emph) ==
    IF p > Len(text) THEN <<>>
    ELSE LET m == MatchAt(text, p, emph)
         IN  IF m = NoMatch THEN FindAll(text, p + 1, emph)
             ELSE <<m>> \o FindAll(text, m.to, emph)

GeneratedQA(question, answer, topic) ==
    [question |-> question, answer |-> answer, topic |-> topic,
     source |-> "llm_generated"]

\* a loop that keeps the groups as matched, without stripping them
RECURSIVE KeepPairs_Unstripped(_, _)
KeepPairs_Unstripped(matches, topic) ==
    IF matches = <<>> THEN <<>>
    ELSE LET q == Head(matches).question
             a == Head(matches).answer
         IN  (IF q # <<>> /\ a # <<>> THEN <<GeneratedQA(q, a, topic)>> ELSE <<>>)
                 \o KeepPairs_Unstripped(Tail(matches), topic)

\* The loop over the matches: strip both groups, keep the pair when both are
\* non-empty
RECURSIVE KeepPairs(_, _)
KeepPairs(matches, topic) ==
    IF matches = <<>> THEN <<>>
    ELSE LET q == Strip(Head(matches).question)
             a == Strip(Head(matches).answer)
         IN  (IF q # <<>> /\ a # <<>> THEN <<GeneratedQA(q, a, topic)>> ELSE <<>>)
                 \o KeepPairs(Tail(matches), topic)

parse_qa_pairs(text, topic) ==
    LET primary == KeepPairs(FindAll(text, 1, FALSE), topic)
    IN  IF primary # <<>> THEN primary
        ELSE KeepPairs(FindAll(text, 1, TRUE), topic)


-----------------------------------------------------------------------------
(* news_service.fetch_google_news *)

NoText == Msg("", Str(0))

\* What the network does to one requests.get: "ok" with a feed of `feed`
\* entries, or an exception whose str() is `err`
NetOutcomes == {"ok", "timeout", "request_error", "other_error"}
ErrTexts    == {Str(0), Str(1)}

NewsResult(success, articles, total, query, error) ==
    [success |-> success, articles |-> articles, total_count |-> total,
     query |-> query, error |-> error]

fetch_google_news(query, days, max_results, net, feed, err) ==
    IF net = "timeout"
    THEN NewsResult(FALSE, <<>>, 0, query,
                    Msg("Request timed out while fetching news for ", query))
    ELSE IF net = "request_error"
    THEN NewsResult(FALSE, <<>>, 0, query,
                    Msg("Error fetching news for ", Concat(query, err)))
    ELSE IF net = "other_error"
    THEN NewsResult(FALSE, <<>>, 0, query, Msg("Unexpected error: ", err))
    ELSE IF feed = 0
    THEN NewsResult(TRUE, <<>>, 0, query, Msg("No news found for ", query))
    ELSE NewsResult(TRUE, [i \in 1..Min(feed, max_results) |-> i], feed, query,
                    NoText)

-----------------------------------------------------------------------------
(* llm_service.generate_qa_from_news *)

\* What the generation engine does to one llm.ainvoke: "ok" with a text, or an
\* exception whose str() is `err`
LlmOutcomes == {"ok", "raise"}

T_two   == <<"Q1:", " ", "w", " ", "A1:", " ", "x", " ", "Q2:", " ", "x", " ", "A2:", " ", "w">>
T_one   == <<"Q1:", " ", "w", " ", "A1:", " ", "x">>
T_prose == <<"w", " ", "x">>
LlmTexts == {T_two, T_one, T_prose}

GenerationResult(success, qa_pairs, topic, news_count, error) ==
    [raised |-> FALSE, success |-> success, qa_pairs |-> qa_pairs, topic |-> topic,
     news_count |-> news_count, error |-> error, calls |-> <<>>]

\* An exception leaving the function: `error` is its str()
Raised(err) ==
    [raised |-> TRUE, success |-> FALSE, qa_pairs |-> <<>>, topic |-> Str(0),
     news_count |-> 0, error |-> Msg("", err), calls |-> <<>>]

\* The result with the external calls made to get it
WithCalls(r, cs) == [r EXCEPT !.calls = cs]

\* The body of the try block.  env: [net, feed, netErr, llm, llmErr, text]
GenerateTry(topic, days, num_pairs, env) ==
    LET news == fetch_google_news(topic, days, NewsMaxResults,
                                  env.net, env.feed, env.netErr)
    IN  IF ~news.success
        THEN WithCalls(GenerationResult(FALSE, <<>>, topic, 0, news.error),
                       <<"news">>)
        ELSE IF news.articles = <<>>
        THEN WithCalls(GenerationResult(FALSE, <<>>, topic, 0,
                                        Msg("No news found for ", topic)),
                       <<"news">>)
        ELSE IF env.llm = "raise"
        THEN WithCalls(Raised(env.llmErr), <<"news", "llm">>)
        ELSE LET qa_pairs == parse_qa_pairs(env.text, topic)
             IN  IF qa_pairs = <<>>
                 THEN WithCalls(
                          GenerationResult(FALSE, <<>>, topic, Len(news.articles),
                              Msg("Failed to parse Q&A pairs from LLM response.", Str(0))),
                          <<"news", "llm">>)
                 ELSE WithCalls(
                          GenerationResult(TRUE, qa_pairs, topic, Len(news.articles),
                                           NoText),
                          <<"news", "llm">>)

\* No except clause: the exception leaves the function
GenerateExcept_Reraise(topic, r) == r

\* except Exception as e
GenerateExcept(topic, r) ==
    IF r.raised
    THEN WithCalls(GenerationResult(FALSE, <<>>, topic, 0,
                                    Msg("Generation error: ", r.error.detail)),
                   r.calls)
    ELSE r

generate_qa_from_news(topic, days, num_pairs, env) ==
    GenerateExcept(topic, GenerateTry(topic, days, num_pairs, env))

GenEnv(net, feed, netErr, llm, llmErr, text) ==
    [net |-> net, feed |-> feed, netErr |-> netErr, llm |-> llm,
     llmErr |-> llmErr, text |-> text]

\* The environments that differ in what the pipeline sees of them
GenEnvs ==
    {GenEnv("timeout", 0, Str(0), "ok", Str(0), T_prose),
     GenEnv("request_error", 0, Str(1), "ok", Str(0), T_prose),
     GenEnv("ok", 0, Str(0), "ok", Str(0), T_prose)}
    \cup {GenEnv("other_error", 0, e, "ok", Str(0), T_prose) : e \in ErrTexts}
    \cup {GenEnv("ok", f, Str(0), "raise", e, T_prose) :
              f \in 1..MaxFeed, e \in ErrTexts}
    \cup {GenEnv("ok", f, Str(0), "ok", Str(0), t) :
              f \in 1..MaxFeed, t \in LlmTexts}

-----------------------------------------------------------------------------
(* elasticsearch_client.ElasticsearchClient *)

Scores == {4990, 10000}

Doc(id, question, answer, topic, source) ==
    [id |-> id, question |-> question, answer |-> answer, topic |-> topic,
     source |-> source, created_at |-> id]

\* What Elasticsearch does to one search: it is unreachable, the index does not
\* exist, or it scores the documents of `matched` with `score`
EsSearchEnvs(idx) ==
    {[outcome |-> "unreachable", matched |-> {}, score |-> <<>>]}
    \cup (IF idx = <<>>
          THEN {[outcome |-> "not_found", matched |-> {}, score |-> <<>>]}
          ELSE {})
    \cup UNION {{[outcome |-> "ok", matched |-> m, score |-> sc] :
                    sc \in [m -> Scores]} : m \in SUBSET (1..Len(idx))}

\* "sort": ["_score", {"created_at": {"order": "desc"}}]
RECURSIVE SortHits(_, _, _)
SortHits(idx, S, score) ==
    IF S = {} THEN <<>>
    ELSE LET best == CHOOSE i \in S : \A j \in S :
                        \/ score[i] > score[j]
                        \/ score[i] = score[j] /\ idx[i].created_at >= idx[j].created_at
         IN  <<best>> \o SortHits(idx, S \ {best}, score)

\* The search body: "min_score", "sort", "size"
EsResponse(idx, top_k, min_score, env) ==
    LET qualified == {i \in env.matched : env.score[i] >= min_score}
        ranked    == SortHits(idx, qualified, env.score)
    IN  [hits  |-> SubSeq(ranked, 1, Min(top_k, Len(ranked))),
         total |-> Cardinality(qualified)]

\* a banding whose upper band starts above the bound instead of at it
Relevance_StrictHigh(score) ==
    IF score > HighScore THEN "high"
    ELSE IF score >= MediumScore THEN "medium"
    ELSE "low"

Relevance(score) ==
    IF score >= HighScore THEN "high"
    ELSE IF score >= MediumScore THEN "medium"
    ELSE "low"

\* The float of a score of k thousandths, k > 0, is the multiple of
\* 2^(e - 52) nearest to k/1000, where e == Exponent(k) is floor(log2(k/1000))
RECURSIVE Exponent(_)
Exponent(score) ==
    IF score >= 1000
    THEN (IF score < 2000 THEN 0 ELSE 1 + Exponent(score \div 2))
    ELSE Exponent(2 * score) - 1

RECURSIVE Pow2Mod1000(_)
Pow2Mod1000(n) == IF n = 0 THEN 1 ELSE (2 * Pow2Mod1000(n - 1)) % 1000

\* whether that float is k/1000 itself, or lies below or above it
FloatError(score) ==
    LET r == (score * Pow2Mod1000(52 - Exponent(score))) % 1000
    IN  IF r = 0 THEN "exact" ELSE IF r < 500 THEN "below" ELSE "above"

\* round(score, 2), on thousandths: the float is rounded correctly, so a
\* score written with a last digit 5 goes to the side its float lies on,
\* and to the even hundredth when the float is exact
Round2(score) ==
    LET down == (score \div 10) * 10
        last == score % 10
    IN  IF last < 5 THEN down
        ELSE IF last > 5 THEN down + 10
        ELSE CASE FloatError(score) = "below" -> down
               [] FloatError(score) = "above" -> down + 10
               [] OTHER -> IF (down \div 10) % 2 = 0 THEN down ELSE down + 10

Hit(doc, score) ==
    [id |-> Some(doc.id), question |-> doc.question, answer |-> doc.answer,
     topic |-> doc.topic, source |-> doc.source, created_at |-> Some(doc.created_at),
     score |-> Some(Round2(score)), relevance |-> Some(Relevance(score))]

\* search that answers an unreachable Elasticsearch like a missing index
es_search_Swallow(idx, query, top_k, min_score, env) ==
    IF env.outcome \in {"unreachable", "not_found"}
    THEN [raised |-> FALSE, hits |-> <<>>, total |-> 0]
    ELSE [raised |-> FALSE,
          hits   |-> [k \in 1..Len(EsResponse(idx, top_k, min_score, env).hits) |->
                         Hit(idx[EsResponse(idx, top_k, min_score, env).hits[k]],
                             env.score[EsResponse(idx, top_k, min_score, env).hits[k]])],
          total  |-> EsResponse(idx, top_k, min_score, env).total]

\* ElasticsearchClient.search: [raised, hits, total]
es_search(idx, query, top_k, min_score, env) ==
    IF env.outcome = "unreachable"
    THEN [raised |-> TRUE, hits |-> <<>>, total |-> 0]
    ELSE IF env.outcome = "not_found"
    THEN [raised |-> FALSE, hits |-> <<>>, total |-> 0]
    ELSE LET r == EsResponse(idx, top_k, min_score, env)
         IN  [raised |-> FALSE,
              hits   |-> [k \in 1..Len(r.hits) |->
                             Hit(idx[r.hits[k]], env.score[r.hits[k]])],
              total  |-> r.total]

\* index_document that logs the exception of client.index and returns
index_document_Swallow(idx, question, answer, topic, source, ok) ==
    IF ok
    THEN [raised |-> FALSE,
          index  |-> Append(idx, [id |-> Len(idx) + 1, question |-> question,
                                  answer |-> answer, topic |-> topic,
                                  source |-> source, created_at |-> Len(idx) + 1]),
          id     |-> Some(Len(idx) + 1)]
    ELSE [raised |-> FALSE, index |-> idx, id |-> None]

\* ElasticsearchClient.index_document with an auto-generated id: the index after
\* it (the write is made with refresh=True), or the exception of client.index
index_document(idx, question, answer, topic, source, ok) ==
    IF ok
    THEN [raised |-> FALSE,
          index  |-> Append(idx, Doc(Len(idx) + 1, question, answer, topic, source)),
          id     |-> Some(Len(idx) + 1)]
    ELSE [raised |-> TRUE, index |-> idx, id |-> None]

\* for qa in qa_pairs: await es_client.index_document(...), where the failAt-th
\* call raises (none when failAt is 0 or beyond the pairs): the index, the calls
\* made and whether the loop was left by the exception
RECURSIVE IndexLoop(_, _, _, _)
IndexLoop(idx, qa_pairs, k, failAt) ==
    IF k > Len(qa_pairs) THEN [raised |-> FALSE, index |-> idx, done |-> k - 1]
    ELSE LET qa == qa_pairs[k]
             r  == index_document(idx, qa.question, qa.answer, Some(qa.topic),
                                  Some(qa.source), k # failAt)
         IN  IF r.raised THEN [raised |-> TRUE, index |-> idx, done |-> k]
             ELSE IndexLoop(r.index, qa_pairs, k + 1, failAt)

Times(n, x) == [i \in 1..n |-> x]


-----------------------------------------------------------------------------
(* models.py: the request models FastAPI validates before a handler runs *)

\* The query checked for min_length only
SearchRequestValid_NoMaxLength(req) ==
    /\ StrLen(req.query) >= 1
    /\ req.top_k >= 1 /\ req.top_k <= TopKMax
    /\ req.min_score >= 0

SearchRequestValid(req) ==
    /\ StrLen(req.query) >= 1 /\ StrLen(req.query) <= QueryMaxLen
    /\ req.top_k >= 1 /\ req.top_k <= TopKMax
    /\ req.min_score >= 0

GenerateRequestValid(req) ==
    /\ StrLen(req.topic) >= 1 /\ StrLen(req.topic) <= TopicMaxLen
    /\ req.days >= 1 /\ req.days <= DaysMax
    /\ req.num_pairs >= 1 /\ req.num_pairs <= NumPairsMax

IndexRequestValid(item) ==
    /\ Len(item.question) >= 1
    /\ Len(item.answer) >= 1

\* The requests sent: each field at a bound of its range and on both sides of it
Queries == {Str(0), Str(QueryMaxLen), Str(QueryMaxLen + 1)}
Topics  == {Str(0), Str(TopicMaxLen), Str(TopicMaxLen + 1)}

SearchRequests ==
    [op : {"search"}, query : Queries, top_k : {0, 1, TopKMax + 1},
     min_score : {-1, MediumScore}, fallback_to_llm : BOOLEAN]

GenerateRequests ==
    [op : {"generate"}, topic : Topics, days : {0, DaysMax, DaysMax + 1},
     num_pairs : {0, NumPairsMax, NumPairsMax + 1}]

\* source defaults to "manual"; any string of at most 100 characters is accepted
IndexRequests ==
    [op : {"index"}, question : {<<>>, <<"w">>}, answer : {<<>>, <<"x">>},
     topic : {None}, source : {Some("manual"), Some("llm_generated")}]

-----------------------------------------------------------------------------
(* main.py: responses *)

NoRequest  == [op |-> "none"]
NoResponse == [status |-> 0]
NoSearch   == [called |-> FALSE]
NoGen      == [called |-> FALSE]
Searched(es, r) == [called |-> TRUE, outcome |-> es.outcome, result |-> r]
Gen(env, g)     == [called |-> TRUE, env |-> env, result |-> g]

\* FastAPI's answer to a request body that fails validation
Http422 == [status |-> 422]
HTTPException(status, detail) == [status |-> status, detail |-> detail]

\* QAPair(**hit) of an index hit
QAPairOfHit(hit) ==
    [id |-> hit.id, question |-> hit.question, answer |-> hit.answer,
     topic |-> hit.topic, source |-> hit.source, score |-> hit.score,
     relevance |-> hit.relevance, created_at |-> hit.created_at]

\* The generated pair returned without its relevance
QAPairOfGenerated_Unscored(qa) ==
    [id |-> None, question |-> qa.question, answer |-> qa.answer,
     topic |-> Some(qa.topic), source |-> Some(qa.source), score |-> None,
     relevance |-> None, created_at |-> None]

\* The QAPair of a generated pair
QAPairOfGenerated(qa) ==
    [id |-> None, question |-> qa.question, answer |-> qa.answer,
     topic |-> Some(qa.topic), source |-> Some(qa.source), score |-> None,
     relevance |-> Some("high"), created_at |-> None]

SearchResponse(query, results, total_hits, source) ==
    [status |-> 200, query |-> query, results |-> results,
     total_hits |-> total_hits, source |-> source]

\* a return that reports the total the index counted
SearchReturn_IndexTotal(query, search_result, results, source) ==
    SearchResponse(query, results, search_result.total, source)

\* return SearchResponse(query=..., results=results, total_hits=len(results), ...)
SearchReturn(query, search_result, results, source) ==
    SearchResponse(query, results, Len(results), source)

GenerateResponse(topic, results, news_count, indexed) ==
    [status |-> 200, topic |-> topic, results |-> results,
     news_count |-> news_count, indexed |-> indexed]

IndexResponse(success, id, indexed_count) ==
    [status |-> 200, success |-> success, id |-> id, indexed_count |-> indexed_count]

DeleteResponse(success, deleted_count) ==
    [status |-> 200, success |-> success, deleted_count |-> deleted_count]

\* The fallback taken on every empty result, whatever the request asks
ShouldFallback_IgnoreFlag(found, req) == found = <<>>

\* if not hits and request.fallback_to_llm
ShouldFallback(found, req) == found = <<>> /\ req.fallback_to_llm

\* if gen_result.success and gen_result.qa_pairs
Usable(g) == g.success /\ g.qa_pairs # <<>>

\* A handler is over: what it answered, the index it leaves, the calls it made
\* and who wrote the documents it added
Finish(req, resp, idx, cs, sr, g) ==
    /\ Len(idx) <= MaxDocs
    /\ request' = req
    /\ response' = resp
    /\ index' = idx
    /\ calls' = cs
    /\ searchResult' = sr
    /\ genResult' = g
    /\ writer' = IF Len(idx) >= Len(writer)
                 THEN writer \o Times(Len(idx) - Len(writer), req.op)
                 ELSE <<>>
    /\ UNCHANGED <<cacheVars, threadVars, toolVars, pureVars>>


-----------------------------------------------------------------------------
(* main.py: the handlers.  Each action is one request, from validation to the
   response, with what the collaborators do chosen on the way. *)

\* The n index_document calls of a loop, the last of which raised or not
UpsertCalls(n, raised) ==
    IF raised THEN Times(n - 1, "es.index") \o <<"es.index:raised">>
    ELSE Times(n, "es.index")

\* POST /search
search_qa ==
    \E req \in SearchRequests :
        IF ~SearchRequestValid(req)
        THEN Finish(req, Http422, index, <<>>, NoSearch, NoGen)
        ELSE \E es \in EsSearchEnvs(index) :
             \E search_result \in
                    {es_search(index, req.query, req.top_k, req.min_score, es)} :
             \E sr \in {Searched(es, search_result)} :
                IF search_result.raised
                THEN Finish(req, HTTPException(500, "search"), index,
                            <<"es.search">>, sr, NoGen)
                ELSE IF ShouldFallback(search_result.hits, req)
                THEN \E env \in GenEnvs :
                     \E g \in {generate_qa_from_news(req.query, SearchDays,
                                                     SearchNumPairs, env)} :
                     \E cs \in {<<"es.search">> \o g.calls} :
                        IF g.raised
                        THEN Finish(req, HTTPException(500, "generation"), index,
                                    cs, sr, Gen(env, g))
                        ELSE IF Usable(g)
                        THEN \E failAt \in 0..Len(g.qa_pairs) :
                             \E up \in {IndexLoop(index, g.qa_pairs, 1, failAt)} :
                                IF up.raised
                                THEN Finish(req, HTTPException(500, "index"),
                                            up.index,
                                            cs \o UpsertCalls(up.done, TRUE),
                                            sr, Gen(env, g))
                                ELSE Finish(req,
                                        SearchReturn(req.query, search_result,
                                            [k \in 1..Len(g.qa_pairs) |->
                                                QAPairOfGenerated(g.qa_pairs[k])],
                                            "llm_generated"),
                                        up.index,
                                        cs \o UpsertCalls(up.done, FALSE),
                                        sr, Gen(env, g))
                        ELSE Finish(req,
                                SearchReturn(req.query, search_result,
                                    [k \in 1..Len(search_result.hits) |->
                                        QAPairOfHit(search_result.hits[k])],
                                    "elasticsearch"),
                                index, cs, sr, Gen(env, g))
                ELSE Finish(req,
                        SearchReturn(req.query, search_result,
                            [k \in 1..Len(search_result.hits) |->
                                QAPairOfHit(search_result.hits[k])],
                            "elasticsearch"),
                        index, <<"es.search">>, sr, NoGen)

\* a generate that asks the index first, as the search does
generate_qa_SearchFirst ==
    \E req \in GenerateRequests :
        IF ~GenerateRequestValid(req)
        THEN Finish(req, Http422, index, <<>>, NoSearch, NoGen)
        ELSE \E env \in GenEnvs :
             \E g \in {generate_qa_from_news(req.topic, req.days, req.num_pairs,
                                             env)} :
             \E cs \in {<<"es.search">> \o g.calls} :
                IF g.raised
                THEN Finish(req, HTTPException(500, "generation"), index,
                            cs, NoSearch, Gen(env, g))
                ELSE IF ~g.success
                THEN Finish(req, HTTPException(400, g.error), index, cs,
                            NoSearch, Gen(env, g))
                ELSE \E failAt \in 0..Len(g.qa_pairs) :
                     \E up \in {IndexLoop(index, g.qa_pairs, 1, failAt)} :
                        IF up.raised
                        THEN Finish(req, HTTPException(500, "index"), up.index,
                                    cs \o UpsertCalls(up.done, TRUE),
                                    NoSearch, Gen(env, g))
                        ELSE Finish(req,
                                GenerateResponse(req.topic,
                                    [k \in 1..Len(g.qa_pairs) |->
                                        QAPairOfGenerated(g.qa_pairs[k])],
                                    g.news_count, g.qa_pairs # <<>>),
                                up.index, cs \o UpsertCalls(up.done, FALSE),
                                NoSearch, Gen(env, g))

\* POST /generate
generate_qa ==
    \E req \in GenerateRequests :
        IF ~GenerateRequestValid(req)
        THEN Finish(req, Http422, index, <<>>, NoSearch, NoGen)
        ELSE \E env \in GenEnvs :
             \E g \in {generate_qa_from_news(req.topic, req.days, req.num_pairs,
                                             env)} :
                IF g.raised
                THEN Finish(req, HTTPException(500, "generation"), index,
                            g.calls, NoSearch, Gen(env, g))
                ELSE IF ~g.success
                THEN Finish(req, HTTPException(400, g.error), index, g.calls,
                            NoSearch, Gen(env, g))
                ELSE \E failAt \in 0..Len(g.qa_pairs) :
                     \E up \in {IndexLoop(index, g.qa_pairs, 1, failAt)} :
                        IF up.raised
                        THEN Finish(req, HTTPException(500, "index"), up.index,
                                    g.calls \o UpsertCalls(up.done, TRUE),
                                    NoSearch, Gen(env, g))
                        ELSE Finish(req,
                                GenerateResponse(req.topic,
                                    [k \in 1..Len(g.qa_pairs) |->
                                        QAPairOfGenerated(g.qa_pairs[k])],
                                    g.news_count, g.qa_pairs # <<>>),
                                up.index, g.calls \o UpsertCalls(up.done, FALSE),
                                NoSearch, Gen(env, g))

\* POST /index
index_single_qa ==
    \E req \in IndexRequests, ok \in BOOLEAN :
        IF ~IndexRequestValid(req)
        THEN ok /\ Finish(req, Http422, index, <<>>, NoSearch, NoGen)
        ELSE \E r \in {index_document(index, req.question, req.answer, req.topic,
                                      req.source, ok)} :
                IF r.raised
                THEN Finish(req, HTTPException(500, "index"), index,
                            UpsertCalls(1, TRUE), NoSearch, NoGen)
                ELSE Finish(req, IndexResponse(TRUE, r.id, 1), r.index,
                            UpsertCalls(1, FALSE), NoSearch, NoGen)

\* DELETE /index
delete_all_qa ==
    \E ok \in BOOLEAN :
        IF ok
        THEN Finish([op |-> "delete"], DeleteResponse(TRUE, Len(index)), <<>>,
                    <<"es.delete_by_query">>, NoSearch, NoGen)
        ELSE Finish([op |-> "delete"], HTTPException(500, "delete"), index,
                    <<"es.delete_by_query">>, NoSearch, NoGen)

-----------------------------------------------------------------------------
(* SemanticCache: semantic_cache.py *)

\* thresholds a cache is constructed with
Thresholds == {-100, 0, 60, DefaultThreshold}

\* the queries put to the cache and the results stored with them
CacheQueries == {<<"a">>, <<"A", " ">>, <<"b">>, <<"d">>}
CacheResults == {"r1", "r2"}

\* SentenceTransformer.encode, a fixed function of the text as given
get_embedding(text) ==
    CASE text = <<"a">>      -> <<5, 0>>
      [] text = <<"A", " ">> -> <<4, 3>>
      [] text = <<"b">>      -> <<3, 4>>
      [] text = <<"d">>      -> <<-3, 4>>
      [] OTHER               -> <<0, 0>>

\* str.lower() and query.strip().lower()
Lower(c) == IF c = "A" THEN "a" ELSE c
Normalize(query) == [i \in 1..Len(Strip(query)) |-> Lower(Strip(query)[i])]

Dot(u, v) == u[1] * v[1] + u[2] * v[2]
Norm(v) == CHOOSE n \in 0..Dot(v, v) : n * n <= Dot(v, v) /\ (n + 1) * (n + 1) > Dot(v, v)

\* cosine of two embeddings, in hundredths; 0 when one of them has norm 0
cosine_similarity(emb1, emb2) ==
    IF Norm(emb1) = 0 \/ Norm(emb2) = 0 THEN 0
    ELSE (Dot(emb1, emb2) * 100) \div (Norm(emb1) * Norm(emb2))

Entry(query, result) ==
    [query |-> query, result |-> result, embedding |-> get_embedding(query)]

\* the cache file: absent, a JSON record, or a truncated write
NoFile == [state |-> "absent", entries |-> <<>>, hits |-> 0, misses |-> 0]
IoOutcomes == {"ok", "open_fails", "write_fails"}

_save_cache(file, entries, h, m, io) ==
    CASE io = "ok"          -> [state |-> "ok", entries |-> entries, hits |-> h, misses |-> m]
      [] io = "write_fails" -> [state |-> "corrupt", entries |-> <<>>, hits |-> 0, misses |-> 0]
      [] OTHER              -> file

\* a load that takes the entries of the file and leaves the counters at 0
_load_cache_EntriesOnly(file) ==
    IF file.state = "ok"
    THEN [cache |-> file.entries, hits |-> 0, misses |-> 0]
    ELSE [cache |-> <<>>, hits |-> 0, misses |-> 0]

\* what __init__ holds after _load_cache
_load_cache(file) ==
    IF file.state = "ok"
    THEN [cache |-> file.entries, hits |-> file.hits, misses |-> file.misses]
    ELSE [cache |-> <<>>, hits |-> 0, misses |-> 0]

\* an exact match that compares the stored query as written
RECURSIVE ExactMatch_AsWritten(_, _, _)
ExactMatch_AsWritten(entries, qn, k) ==
    IF k > Len(entries) THEN 0
    ELSE IF entries[k].query = qn THEN k
    ELSE ExactMatch_AsWritten(entries, qn, k + 1)

\* the first entry whose normalized query is qn, 0 if there is none
RECURSIVE ExactMatch(_, _, _)
ExactMatch(entries, qn, k) ==
    IF k > Len(entries) THEN 0
    ELSE IF Normalize(entries[k].query) = qn THEN k
    ELSE ExactMatch(entries, qn, k + 1)

\* the similarity loop: best_similarity and best_match after entries k..
NoBest == [similarity |-> 0, match |-> None]

\* a loop that sets best_match at every entry, not only at a better one
RECURSIVE BestMatch_LastEntry(_, _, _, _)
BestMatch_LastEntry(entries, qe, k, best) ==
    IF k > Len(entries) THEN best
    ELSE LET similarity == cosine_similarity(qe, entries[k].embedding)
         IN  BestMatch_LastEntry(entries, qe, k + 1,
                 [similarity |-> IF similarity > best.similarity
                                 THEN similarity ELSE best.similarity,
                  match |-> Some(<<entries[k].result, similarity>>)])

RECURSIVE BestMatch(_, _, _, _)
BestMatch(entries, qe, k, best) ==
    IF k > Len(entries) THEN best
    ELSE LET similarity == cosine_similarity(qe, entries[k].embedding)
         IN  BestMatch(entries, qe, k + 1,
                 IF similarity > best.similarity
                 THEN [similarity |-> similarity,
                       match |-> Some(<<entries[k].result, similarity>>)]
                 ELSE best)

\* get_cached_result up to its flush: the value returned, the counters,
\* whether the exact path answered and how many embeddings were computed
Looked(returned, h, m, exact, embeddings) ==
    [returned |-> returned, hits |-> h, misses |-> m, exact |-> exact,
     embeddings |-> embeddings]

\* a lookup whose exact path returns without counting the hit
GetCachedResult_ExactUncounted(entries, h, m, t, query) ==
    IF entries = <<>> THEN Looked(None, h, m + 1, FALSE, 0)
    ELSE LET e == ExactMatch(entries, Normalize(query), 1)
             best == BestMatch(entries, get_embedding(query), 1, NoBest)
         IN  IF e # 0 THEN Looked(Some(<<entries[e].result, 100>>), h, m, TRUE, 0)
             ELSE IF best.similarity >= t THEN Looked(best.match, h + 1, m, FALSE, 1)
             ELSE Looked(None, h, m + 1, FALSE, 1)

GetCachedResult(entries, h, m, t, query) ==
    IF entries = <<>> THEN Looked(None, h, m + 1, FALSE, 0)
    ELSE LET e == ExactMatch(entries, Normalize(query), 1)
             best == BestMatch(entries, get_embedding(query), 1, NoBest)
         IN  IF e # 0 THEN Looked(Some(<<entries[e].result, 100>>), h + 1, m, TRUE, 0)
             ELSE IF best.similarity >= t THEN Looked(best.match, h + 1, m, FALSE, 1)
             ELSE Looked(None, h, m + 1, FALSE, 1)

\* the record of the last cache operation
Op(op, query, returned, exact, embeddings, io) ==
    [op |-> op, query |-> query, returned |-> returned,
     exact |-> exact, embeddings |-> embeddings, io |-> io]
NoLookup == Op("none", <<>>, None, FALSE, 0, "ok")

\* one flush with outcome io, within the bound on failed flushes
Flush(entries, h, m, io) ==
    /\ io # "ok" => flushFailures < MaxFlushFailures
    /\ disk' = _save_cache(disk, entries, h, m, io)
    /\ flushFailures' = IF io = "ok" THEN flushFailures ELSE flushFailures + 1

get_cached_result ==
    \E query \in CacheQueries, io \in IoOutcomes :
    \E r \in {GetCachedResult(cache, hits, misses, threshold, query)} :
        /\ hits + misses < MaxLookups
        /\ hits' = r.hits
        /\ misses' = r.misses
        /\ Flush(cache, r.hits, r.misses, io)
        /\ lookup' = Op("get", query, r.returned, r.exact, r.embeddings, io)
        /\ UNCHANGED <<cache, threshold>>
        /\ UNCHANGED <<apiVars, toolVars, threadVars, pureVars>>

\* store that appends without looking for the query among the entries
store_result_NoDuplicateCheck ==
    \E query \in CacheQueries, result \in CacheResults, io \in IoOutcomes :
        /\ Len(cache) < MaxEntries
        /\ cache' = Append(cache, Entry(query, result))
        /\ Flush(cache', hits, misses, io)
        /\ lookup' = Op("store", query, None, FALSE, 1, io)
        /\ UNCHANGED <<hits, misses, threshold>>
        /\ UNCHANGED <<apiVars, toolVars, threadVars, pureVars>>

store_result ==
    \E query \in CacheQueries, result \in CacheResults, io \in IoOutcomes :
        IF ExactMatch(cache, Normalize(query), 1) # 0
        THEN /\ io = "ok"
             /\ lookup' = Op("store", query, None, TRUE, 0, io)
             /\ UNCHANGED <<cache, hits, misses, threshold, disk, flushFailures>>
             /\ UNCHANGED <<apiVars, toolVars, threadVars, pureVars>>
        ELSE /\ Len(cache) < MaxEntries
             /\ cache' = Append(cache, Entry(query, result))
             /\ Flush(cache', hits, misses, io)
             /\ lookup' = Op("store", query, None, FALSE, 1, io)
             /\ UNCHANGED <<hits, misses, threshold>>
             /\ UNCHANGED <<apiVars, toolVars, threadVars, pureVars>>

\* a clear that empties the entry list and keeps the counters
clear_KeepCounters ==
    \E io \in IoOutcomes :
        /\ cache' = <<>>
        /\ Flush(<<>>, hits, misses, io)
        /\ lookup' = Op("clear", <<>>, None, FALSE, 0, io)
        /\ UNCHANGED <<hits, misses, threshold>>
        /\ UNCHANGED <<apiVars, toolVars, threadVars, pureVars>>

clear ==
    \E io \in IoOutcomes :
        /\ cache' = <<>>
        /\ hits' = 0
        /\ misses' = 0
        /\ Flush(<<>>, 0, 0, io)
        /\ lookup' = Op("clear", <<>>, None, FALSE, 0, io)
        /\ UNCHANGED threshold
        /\ UNCHANGED <<apiVars, toolVars, threadVars, pureVars>>

\* SemanticCache(threshold = t) over the file the last cache left
SemanticCache ==
    \E t \in Thresholds :
    \E l \in {_load_cache(disk)} :
        /\ threshold' = t
        /\ cache' = l.cache
        /\ hits' = l.hits
        /\ misses' = l.misses
        /\ lookup' = Op("init", <<>>, None, FALSE, 0, "ok")
        /\ UNCHANGED <<disk, flushFailures>>
        /\ UNCHANGED <<apiVars, toolVars, threadVars, pureVars>>

-----------------------------------------------------------------------------
(* The service *)

ApiInit ==
    /\ index = <<>>
    /\ request = NoRequest
    /\ response = NoResponse
    /\ calls = <<>>
    /\ searchResult = NoSearch
    /\ genResult = NoGen
    /\ writer = <<>>

CacheIdle ==
    /\ cache = <<>>
    /\ hits = 0
    /\ misses = 0
    /\ threshold = DefaultThreshold
    /\ disk = NoFile
    /\ lookup = NoLookup
    /\ flushFailures = 0

\* no concurrent caller, and no function applied on its own
Threads == {1, 2}
NoLocal == [op |-> "none", query |-> <<>>, hit |-> FALSE, loaded |-> 0,
            data |-> [hits |-> 0, misses |-> 0]]
ThreadsIdle ==
    /\ pc = [t \in Threads |-> "idle"]
    /\ local = [t \in Threads |-> NoLocal]
    /\ completed = 0
    /\ held = {}

\* no cache set for the news tool
ToolIdle == _cache = None

NoInput == [fn |-> "none"]
NoOutput == [fn |-> "none"]
PureIdle ==
    /\ input = NoInput
    /\ output = NoOutput

Init == ApiInit /\ CacheIdle /\ ThreadsIdle /\ ToolIdle /\ PureIdle

Next ==
    \/ search_qa
    \/ generate_qa
    \/ index_single_qa
    \/ delete_all_qa

Spec == Init /\ [][Next]_vars

\* the cache alone, constructed with any threshold over no cache file
CacheInit ==
    /\ ApiInit
    /\ ToolIdle
    /\ ThreadsIdle
    /\ PureIdle
    /\ cache = <<>>
    /\ hits = 0
    /\ misses = 0
    /\ threshold \in Thresholds
    /\ disk = NoFile
    /\ lookup = NoLookup
    /\ flushFailures = 0

CacheNext ==
    \/ get_cached_result
    \/ store_result
    \/ clear
    \/ SemanticCache

CacheSpec == CacheInit /\ [][CacheNext]_vars

\* SemanticCache shared by the callers of Threads, with no lock in the code:
\* a caller may be suspended between any two of its reads and writes of the
\* cache object and of the cache file
\* what the callers look up and store
ThreadQueries == {<<"a">>, <<"b">>}
ThreadResult == "r1"

InFlight(op) == {t \in Threads : pc[t] # "idle" /\ local[t].op = op}
Goto(t, label) == pc' = [pc EXCEPT ![t] = label]
Holds(entries, h, m) == held' = held \cup {[cache |-> entries, hits |-> h, misses |-> m]}

\* get_cached_result up to its return statement chosen: the empty test, the
\* exact scan and the similarity scan
t_get_cached_result(t) ==
    \E query \in ThreadQueries :
    \E r \in {GetCachedResult(cache, 0, 0, threshold, query)} :
        /\ pc[t] = "idle"
        /\ completed + Cardinality(InFlight("get")) < MaxLookups
        /\ local' = [local EXCEPT ![t] = [NoLocal EXCEPT !.op = "get",
                         !.hit = (r.hits = 1)]]
        /\ Goto(t, "load")
        /\ UNCHANGED <<apiVars, toolVars, cacheVars, pureVars, completed, held>>

\* self.hits += 1 / self.misses += 1: the read of the attribute
t_counter_load(t) ==
    /\ pc[t] = "load"
    /\ local' = [local EXCEPT ![t].loaded = IF local[t].hit THEN hits ELSE misses]
    /\ Goto(t, "add")
    /\ UNCHANGED <<apiVars, toolVars, cacheVars, pureVars, completed, held>>

\* self.hits += 1 / self.misses += 1: the write of the attribute
t_counter_store(t) ==
    /\ pc[t] = "add"
    /\ hits' = IF local[t].hit THEN local[t].loaded + 1 ELSE hits
    /\ misses' = IF local[t].hit THEN misses ELSE local[t].loaded + 1
    /\ Holds(cache, hits', misses')
    /\ Goto(t, "data")
    /\ UNCHANGED <<apiVars, toolVars, pureVars, cache, threshold, disk, lookup, flushFailures,
                   local, completed>>

\* store_result up to its append: the duplicate scan and the embedding
t_store_result(t) ==
    \E query \in ThreadQueries :
        /\ pc[t] = "idle"
        /\ ExactMatch(cache, Normalize(query), 1) = 0
        /\ Len(cache) + Cardinality(InFlight("store")) < MaxEntries
        /\ local' = [local EXCEPT ![t] = [NoLocal EXCEPT !.op = "store",
                         !.query = query]]
        /\ Goto(t, "append")
        /\ UNCHANGED <<apiVars, toolVars, cacheVars, pureVars, completed, held>>

\* self.cache.append(entry)
t_store_append(t) ==
    /\ pc[t] = "append"
    /\ cache' = Append(cache, Entry(local[t].query, ThreadResult))
    /\ Holds(cache', hits, misses)
    /\ Goto(t, "data")
    /\ UNCHANGED <<apiVars, toolVars, pureVars, hits, misses, threshold, disk, lookup,
                   flushFailures, local, completed>>

\* _save_cache: data = {...} reads the counters and keeps a reference to
\* the entry list
t_save_cache_data(t) ==
    /\ pc[t] = "data"
    /\ local' = [local EXCEPT ![t].data = [hits |-> hits, misses |-> misses]]
    /\ Goto(t, "dump")
    /\ UNCHANGED <<apiVars, toolVars, cacheVars, pureVars, completed, held>>

\* _save_cache: json.dump writes the entry list as it is now with the
\* counters read before, and the call returns
t_save_cache_dump(t) ==
    /\ pc[t] = "dump"
    /\ disk' = _save_cache(disk, cache, local[t].data.hits, local[t].data.misses, "ok")
    /\ completed' = IF local[t].op = "get" THEN completed + 1 ELSE completed
    /\ local' = [local EXCEPT ![t] = NoLocal]
    /\ Goto(t, "idle")
    /\ UNCHANGED <<apiVars, toolVars, pureVars, cache, hits, misses, threshold, lookup,
                   flushFailures, held>>

ThreadInit ==
    /\ ApiInit
    /\ ToolIdle
    /\ PureIdle
    /\ CacheIdle
    /\ pc = [t \in Threads |-> "idle"]
    /\ local = [t \in Threads |-> NoLocal]
    /\ completed = 0
    /\ held = {[cache |-> <<>>, hits |-> 0, misses |-> 0]}

ThreadNext ==
    \E t \in Threads :
        \/ t_get_cached_result(t)
        \/ t_counter_load(t)
        \/ t_counter_store(t)
        \/ t_store_result(t)
        \/ t_store_append(t)
        \/ t_save_cache_data(t)
        \/ t_save_cache_dump(t)

ThreadSpec == ThreadInit /\ [][ThreadNext]_vars

\* the loop body of ElasticsearchClient.search on its own: one hit of
\* Elasticsearch with any raw score is made into a hit of the result
RawScores == 0..MaxRawScore
es_search_hit ==
    /\ input.fn = "hit"
    /\ output = NoOutput
    /\ output' = [fn |-> "hit",
                  hit |-> Hit(Doc(1, <<"w">>, <<"x">>, None, Some("manual")), input.score)]
    /\ UNCHANGED <<apiVars, toolVars, cacheVars, threadVars, input>>

BandInit ==
    /\ ApiInit
    /\ ToolIdle
    /\ CacheIdle
    /\ ThreadsIdle
    /\ input \in {[fn |-> "hit", score |-> score] : score \in RawScores}
    /\ output = NoOutput

BandNext == es_search_hit

BandSpec == BandInit /\ [][BandNext]_vars

\* parse_qa_pairs on its own: a text written as a prose prefix and up to
\* MaxPairs pairs, each a question marker, a question text, the answer
\* marker of the same label and an answer text, all markers plain or all
\* emphasized; a text is missing, blank, a word, or padded words
PairTexts == {<<>>, <<" ">>, <<"w">>, <<" ", "w", " ", "x", " ">>}
WrittenPairs == [label : {1, 2}, question : PairTexts, answer : PairTexts]
Prefixes == {<<>>, <<"w", " ">>}

QMarker(label, emph) ==
    LET tag == IF label = 1 THEN "Q1:" ELSE "Q2:"
    IN  IF emph THEN <<"**", tag, "**">> ELSE <<tag>>
AMarker(label, emph) ==
    LET tag == IF label = 1 THEN "A1:" ELSE "A2:"
    IN  IF emph THEN <<"**", tag, "**">> ELSE <<tag>>

RECURSIVE WritePairs(_, _)
WritePairs(pairs, emph) ==
    IF pairs = <<>> THEN <<>>
    ELSE QMarker(Head(pairs).label, emph) \o Head(pairs).question
            \o AMarker(Head(pairs).label, emph) \o Head(pairs).answer
            \o WritePairs(Tail(pairs), emph)

LlmText(in) == in.prefix \o WritePairs(in.pairs, in.emph)
ParseTopic == Str(1)

parse ==
    /\ input.fn = "parse"
    /\ output = NoOutput
    /\ output' = [fn |-> "parse", pairs |-> parse_qa_pairs(LlmText(input), ParseTopic)]
    /\ UNCHANGED <<apiVars, toolVars, cacheVars, threadVars, input>>

ParseInit ==
    /\ ApiInit
    /\ ToolIdle
    /\ CacheIdle
    /\ ThreadsIdle
    /\ input \in {[fn |-> "parse", emph |-> emph, prefix |-> prefix, pairs |-> pairs] :
                      emph \in BOOLEAN, prefix \in Prefixes,
                      pairs \in UNION {[1..n -> WrittenPairs] : n \in 0..MaxPairs}}
    /\ output = NoOutput

ParseNext == parse

ParseSpec == ParseInit /\ [][ParseNext]_vars


-----------------------------------------------------------------------------
(* langchain_test.py: the cached news tool.  A text the tool builds is its  *)
(* literal beginning, cut after its first word when that is "Error", and   *)
(* what is interpolated after it; days is the window the feed was asked    *)
(* for, which decides the articles the text lists.                         *)

ToolQueries == {<<"a">>, <<"b">>, <<"d">>}
ToolDays    == {3, 7}
ToolThresholds == {0, DefaultThreshold}
TheCache    == Some("SemanticCache")

NewsText(prefix, query, days, total, shown, detail) ==
    [prefix |-> prefix, query |-> query, days |-> days, total |-> total,
     shown |-> shown, detail |-> detail]

\* a test for the word in lower case
StartsWith_Lowercase(text, word) == Head(text.prefix) = "error"

\* str.startswith
StartsWith(text, word) == Head(text.prefix) = word

_fetch_google_news(query, days, net, feed, err) ==
    IF net = "timeout"
    THEN NewsText(<<"Error", ": Request timed out while fetching news for ">>,
                  query, days, 0, 0, Str(0))
    ELSE IF net = "request_error"
    THEN NewsText(<<"Error", " fetching news for ">>, query, days, 0, 0, err)
    ELSE IF net = "other_error"
    THEN NewsText(<<"Error", ": ">>, <<>>, days, 0, 0, err)
    ELSE IF feed = 0
    THEN NewsText(<<"No news found for ">>, query, days, 0, 0, Str(0))
    ELSE NewsText(<<"Found ">>, query, days, feed, Min(ToolMaxResults, feed), Str(0))

\* what the network does to the one requests.get of the tool
ToolNets ==
    {[net |-> "timeout", feed |-> 0, err |-> Str(0)],
     [net |-> "request_error", feed |-> 0, err |-> Str(1)],
     [net |-> "other_error", feed |-> 0, err |-> Str(1)]}
    \cup {[net |-> "ok", feed |-> f, err |-> Str(0)] : f \in 0..MaxFeed}

\* f"[Cache Hit - {similarity:.0%} match]\n\n{result}"
CacheHitText(result, similarity) ==
    [prefix |-> <<"[Cache Hit - ">>, similarity |-> similarity, result |-> result]

\* store_result up to its flush: the entry list, and whether it was appended to
StoreResult(entries, query, result) ==
    IF ExactMatch(entries, Normalize(query), 1) # 0
    THEN [cache |-> entries, appended |-> FALSE]
    ELSE [cache |-> Append(entries, Entry(query, result)), appended |-> TRUE]

NotStored(entries) == [cache |-> entries, appended |-> FALSE]

\* what a call of the tool did: the text returned, what the cache answered
\* ("none" when no cache is set) and whether the feed was fetched
Called_google_news(text, cached, fetched) ==
    [fn |-> "google_news", text |-> text, cached |-> cached, fetched |-> fetched]

Failed(io) == IF io = "ok" THEN 0 ELSE 1

\* set_cache(cache), with the cache of this model
set_cache ==
    /\ _cache' = TheCache
    /\ UNCHANGED <<apiVars, cacheVars, threadVars, pureVars>>

\* one call of the tool
google_news ==
    \E query \in ToolQueries, days \in ToolDays, n \in ToolNets :
    \E io1 \in IoOutcomes, io2 \in IoOutcomes :
    \E r \in {GetCachedResult(cache, hits, misses, threshold, query)} :
    \E result \in {_fetch_google_news(query, days, n.net, n.feed, n.err)} :
        /\ input' = [fn |-> "google_news", query |-> query, days |-> days]
        /\ UNCHANGED <<apiVars, threadVars, toolVars, threshold>>
        /\ IF _cache = None
           THEN /\ io1 = "ok" /\ io2 = "ok"
                /\ output' = Called_google_news(result, "none", TRUE)
                /\ UNCHANGED <<cache, hits, misses, disk, lookup, flushFailures>>
           ELSE IF r.returned # None
           THEN /\ io2 = "ok"
                /\ n.net = "ok" /\ n.feed = 0
                /\ hits + misses < MaxLookups
                /\ hits' = r.hits
                /\ misses' = r.misses
                /\ Flush(cache, r.hits, r.misses, io1)
                /\ lookup' = Op("get", query, r.returned, r.exact, r.embeddings, io1)
                /\ output' = Called_google_news(
                                 CacheHitText(r.returned[1][1], r.returned[1][2]),
                                 "hit", FALSE)
                /\ UNCHANGED cache
           ELSE \E st \in {IF StartsWith(result, "Error") THEN NotStored(cache)
                           ELSE StoreResult(cache, query, result)} :
                \E saved \in {_save_cache(disk, cache, r.hits, r.misses, io1)} :
                    /\ hits + misses < MaxLookups
                    /\ Len(st.cache) <= MaxEntries
                    /\ ~st.appended => io2 = "ok"
                    /\ flushFailures + Failed(io1) + Failed(io2) <= MaxFlushFailures
                    /\ hits' = r.hits
                    /\ misses' = r.misses
                    /\ cache' = st.cache
                    /\ disk' = IF st.appended
                               THEN _save_cache(saved, st.cache, r.hits, r.misses, io2)
                               ELSE saved
                    /\ flushFailures' = flushFailures + Failed(io1) + Failed(io2)
                    /\ lookup' = IF st.appended
                                 THEN Op("store", query, None, FALSE, 1, io2)
                                 ELSE Op("get", query, r.returned, r.exact,
                                         r.embeddings, io1)
                    /\ output' = Called_google_news(result, "miss", TRUE)

\* the tool, first with no cache, then with a cache constructed with a
\* threshold over no cache file
ToolInit ==
    /\ ApiInit
    /\ ToolIdle
    /\ ThreadsIdle
    /\ PureIdle
    /\ cache = <<>>
    /\ hits = 0
    /\ misses = 0
    /\ threshold \in ToolThresholds
    /\ disk = NoFile
    /\ lookup = NoLookup
    /\ flushFailures = 0

ToolNext ==
    \/ set_cache
    \/ google_news
    \/ clear

ToolSpec == ToolInit /\ [][ToolNext]_vars

-----------------------------------------------------------------------------
(* Properties of the service *)

RECURSIVE Count(_, _)
Count(seq, x) ==
    IF seq = <<>> THEN 0
    ELSE (IF Head(seq) = x THEN 1 ELSE 0) + Count(Tail(seq), x)

Called(c) == \E i \in 1..Len(calls) : calls[i] = c

PipelineCalls == {"news", "llm", "es.index", "es.index:raised"}

\* The last request was a search whose index search returned
SearchReturned ==
    /\ request.op = "search"
    /\ searchResult.called
    /\ ~searchResult.result.raised

\* ... with no hit and the fallback asked for, so that the pipeline ran
FellBack ==
    /\ SearchReturned
    /\ searchResult.result.hits = <<>>
    /\ request.fallback_to_llm
    /\ genResult.called

\* What the collaborators of the pipeline did
NewsFailed      == genResult.env.net # "ok"
NewsEmpty       == genResult.env.net = "ok" /\ genResult.env.feed = 0
LlmReached      == genResult.env.net = "ok" /\ genResult.env.feed >= 1
LlmFailed       == LlmReached /\ genResult.env.llm = "raise"
ParsedPairs     == parse_qa_pairs(genResult.env.text, genResult.result.topic)
NothingParsed   == LlmReached /\ genResult.env.llm = "ok" /\ ParsedPairs = <<>>
SomethingParsed == LlmReached /\ genResult.env.llm = "ok" /\ ParsedPairs # <<>>

\* C1: a search runs the news fetch, the generation and the upserts only when
\* the index search returned no hit and fallback_to_llm is true; otherwise it
\* answers with source "elasticsearch", the hits of the index in their order,
\* and makes no other call than the search.
C1_FallbackOnlyWhenEmptyAndEnabled ==
    SearchReturned =>
        LET found == searchResult.result.hits
            wants == found = <<>> /\ request.fallback_to_llm
        IN  /\ (\E c \in PipelineCalls : Called(c)) => wants
            /\ ~wants =>
                  /\ response.status = 200
                  /\ response.source = "elasticsearch"
                  /\ response.results =
                         [k \in 1..Len(found) |-> QAPairOfHit(found[k])]
                  /\ calls = <<"es.search">>
                  /\ ~genResult.called

C1_Witness ==
    /\ SearchReturned
    /\ request.fallback_to_llm
    /\ Len(searchResult.result.hits) = 1
    /\ response.status = 200
    /\ response.source = "elasticsearch"

\* C2: a search that falls back, gets at least one article and an output that
\* parses into N >= 1 pairs answers (every upsert having returned) with source
\* "llm_generated", total_hits = N, the N pairs in parse order, each of
\* relevance "high", after exactly N upserts.
C2_FallbackReturnsParsedPairs ==
    (FellBack /\ SomethingParsed /\ ~Called("es.index:raised")) =>
        LET pairs == parse_qa_pairs(genResult.env.text, request.query)
        IN  /\ response.status = 200
            /\ response.source = "llm_generated"
            /\ response.total_hits = Len(pairs)
            /\ Len(response.results) = Len(pairs)
            /\ \A k \in 1..Len(pairs) :
                  /\ response.results[k].question = pairs[k].question
                  /\ response.results[k].answer = pairs[k].answer
                  /\ response.results[k].relevance = Some("high")
            /\ Count(calls, "es.index") = Len(pairs)

C2_Witness ==
    /\ FellBack
    /\ genResult.env.text = T_two
    /\ response.status = 200
    /\ response.source = "llm_generated"
    /\ response.total_hits = 2
    /\ Count(calls, "es.index") = 2

\* The last response is a success that carries generated pairs
GeneratedSuccess ==
    /\ response.status = 200
    /\ \/ request.op = "search" /\ response.source = "llm_generated"
       \/ request.op = "generate" /\ response.results # <<>>

\* C3: when a search or a generate answers with generated pairs, every pair of
\* the response is in the index, written by an upsert of this request that
\* returned; when an upsert raised, the answer is an error that reports it.
C3_GeneratedPairsPersistedOrError ==
    /\ GeneratedSuccess =>
          LET n == Len(response.results)
          IN  /\ Count(calls, "es.index") = n
              /\ ~Called("es.index:raised")
              /\ Len(index) >= n
              /\ \A k \in 1..n :
                    LET d == index[Len(index) - n + k]
                    IN  /\ d.question = response.results[k].question
                        /\ d.answer = response.results[k].answer
                        /\ d.topic = response.results[k].topic
                        /\ d.source = response.results[k].source
    /\ (request.op \in {"search", "generate"} /\ Called("es.index:raised")) =>
          response = HTTPException(500, "index")

C3_Witness ==
    /\ request.op = "generate"
    /\ response.status = 200
    /\ Len(response.results) = 2
    /\ Len(index) = 2

\* C4 (as claimed): when a search falls back and the news collaborator or the
\* generation engine fails, the caller gets a service error, never a success.
C4_CollaboratorFailureIsServiceError ==
    (FellBack /\ (NewsFailed \/ LlmFailed)) => response.status >= 500

\* C5 (as claimed): when no news is found or nothing parses, search (on its
\* fallback path) and generate answer with a successful empty result that
\* carries an explanatory message.
C5_NoContentIsEmptySuccessWithMessage ==
    (/\ request.op \in {"search", "generate"}
     /\ genResult.called
     /\ request.op = "search" => FellBack
     /\ NewsEmpty \/ NothingParsed) =>
        /\ response.status = 200
        /\ response.results = <<>>
        /\ "message" \in DOMAIN response

\* C6: when Elasticsearch is unreachable for the search, the request ends with
\* an error: neither the fallback nor an empty success.
C6_UnreachableIndexIsError ==
    (request.op = "search" /\ searchResult.called
        /\ searchResult.outcome = "unreachable") =>
        /\ response.status = 500
        /\ calls = <<"es.search">>
        /\ ~genResult.called

C6_Witness ==
    /\ request.op = "search"
    /\ request.fallback_to_llm
    /\ searchResult.called
    /\ searchResult.outcome = "unreachable"
    /\ response.status = 500

\* C7: generate_qa_from_news never raises; when the news fetch, the generation
\* call or the parsing fails it returns success = false, no pair and a
\* non-empty error text.
C7_GenerationNeverRaises ==
    genResult.called =>
        /\ ~genResult.result.raised
        /\ (NewsFailed \/ LlmFailed \/ NothingParsed) =>
              /\ ~genResult.result.success
              /\ genResult.result.qa_pairs = <<>>
              /\ NonEmptyText(genResult.result.error)

C7_Witness ==
    /\ genResult.called
    /\ LlmFailed
    /\ genResult.env.llmErr = Str(0)
    /\ ~genResult.result.success
    /\ genResult.result.error = Msg("Generation error: ", Str(0))

\* C8 (as claimed): a document of the index has source "llm_generated" if and
\* only if the generation pipeline (search fallback or generate) wrote it.
C8_LlmSourceIffGenerated ==
    \A i \in 1..Len(index) :
        index[i].source = Some("llm_generated")
            <=> writer[i] \in {"search", "generate"}

\* C9: a search whose query is empty or longer than 500 characters, and a
\* generate whose topic is empty or longer than 200, whose days is outside
\* 1..30 or whose num_pairs is outside 1..10, is rejected with a client error
\* before any call to the index, the news or the generation engine.
C9_InvalidRequestRejectedBeforeAnyCall ==
    (\/ /\ request.op = "search"
        /\ StrLen(request.query) = 0 \/ StrLen(request.query) > 500
     \/ /\ request.op = "generate"
        /\ \/ StrLen(request.topic) = 0 \/ StrLen(request.topic) > 200
           \/ request.days < 1 \/ request.days > 30
           \/ request.num_pairs < 1 \/ request.num_pairs > 10) =>
        /\ response.status = 422
        /\ calls = <<>>
        /\ ~searchResult.called
        /\ ~genResult.called

C9_Witness ==
    /\ request.op = "search"
    /\ StrLen(request.query) = 501
    /\ request.top_k = 1
    /\ request.min_score >= 0
    /\ response.status = 422
    /\ index # <<>>

\* the largest cosine similarity between a query and the stored embeddings
MaxSimilarity(entries, query) ==
    LET sims == {cosine_similarity(get_embedding(query), entries[k].embedding) :
                    k \in 1..Len(entries)}
    IN  CHOOSE s \in sims : \A x \in sims : x <= s

SemanticLookup ==
    /\ lookup.op = "get"
    /\ cache # <<>>
    /\ ~lookup.exact

(* C10: for every threshold t, a lookup on a non-empty cache that has no   *)
(* exact normalized match returns a result if and only if the largest      *)
(* cosine similarity s between the query embedding and the stored          *)
(* embeddings satisfies s >= t (s = t is a hit).                           *)
C10_HitIffSimilarityAtLeastThreshold ==
    SemanticLookup =>
        ((lookup.returned # None) <=>
            (MaxSimilarity(cache, lookup.query) >= threshold))

\* an entry of `entries` has the normalized query of `query`
HasNormalized(entries, query) ==
    \E k \in 1..Len(entries) : Normalize(entries[k].query) = Normalize(query)

NoDuplicateQueries(entries) ==
    \A i, j \in 1..Len(entries) :
        i # j => Normalize(entries[i].query) # Normalize(entries[j].query)

(* C11: no two entries of the cache have the same normalized (trimmed,     *)
(* lowercased) query, and a store whose normalized query is already held,  *)
(* in any casing or whitespace variant and with any result, leaves the     *)
(* entry list (so the first stored result), the counters and the cache     *)
(* file as they were.                                                      *)
C11_StoreIsIdempotentByNormalizedQuery ==
    [][/\ NoDuplicateQueries(cache')
       /\ (lookup'.op = "store" /\ HasNormalized(cache, lookup'.query)) =>
              /\ cache' = cache
              /\ hits' = hits
              /\ misses' = misses
              /\ disk' = disk]_vars

\* a store of a casing / whitespace variant of a held query has returned
C11_Witness ==
    /\ lookup.op = "store"
    /\ lookup.exact
    /\ Len(cache) = 1
    /\ cache[1].query # lookup.query
    /\ Normalize(cache[1].query) = Normalize(lookup.query)

InMemory == [cache |-> cache, hits |-> hits, misses |-> misses]

(* C12: as long as every flush has succeeded, a cache constructed from the *)
(* cache file holds the entry list (query, result and embedding of every   *)
(* entry, in order) and the hits and misses counters of the cache in       *)
(* memory.                                                                 *)
C12_ReloadReproducesState ==
    flushFailures = 0 => _load_cache(disk) = InMemory

\* a cache constructed from a file that holds entries and counted lookups
C12_Witness ==
    /\ flushFailures = 0
    /\ lookup.op = "init"
    /\ cache # <<>>
    /\ hits > 0
    /\ misses > 0

\* the cache file that holds the given state
Persisted(entries, h, m) ==
    [state |-> "ok", entries |-> entries, hits |-> h, misses |-> m]

\* one step counts a lookup: exactly one of the counters grows, by exactly 1
CountsOne ==
    \/ hits' = hits + 1 /\ misses' = misses
    \/ hits' = hits /\ misses' = misses + 1

\* hits + misses counts the lookups since the cache was created empty or
\* cleared: a store leaves the counters, a clear sets them to 0
CountersFollowLookups ==
    /\ lookup'.op = "get" => CountsOne
    /\ lookup'.op = "store" => hits' = hits /\ misses' = misses
    /\ lookup'.op = "clear" => hits' = 0 /\ misses' = 0

C14_ExactMatchReturnsOne ==
    (lookup.op = "get" /\ HasNormalized(cache, lookup.query)) =>
        /\ \E k \in 1..Len(cache) :
              /\ Normalize(cache[k].query) = Normalize(lookup.query)
              /\ lookup.returned = Some(<<cache[k].result, 100>>)
        /\ lookup.embeddings = 0

\* a lookup answered by an entry stored under another casing, whose
\* embedding is below the threshold from the query's
C14_Witness ==
    /\ lookup.op = "get"
    /\ Len(cache) = 1
    /\ cache[1].query # lookup.query
    /\ Normalize(cache[1].query) = Normalize(lookup.query)
    /\ cosine_similarity(get_embedding(lookup.query), cache[1].embedding) < threshold
    /\ lookup.returned = Some(<<cache[1].result, 100>>)

\* clear leaves no entry and no count, and the lookup that follows it misses
ClearEmpties ==
    /\ lookup'.op = "clear" => cache' = <<>> /\ hits' = 0 /\ misses' = 0
    /\ (lookup.op = "clear" /\ lookup'.op = "get") =>
           /\ lookup'.returned = None
           /\ hits' = 0
           /\ misses' = 1

Banded == output.fn = "hit"
Band == output.hit.relevance

(* C17: a hit with raw relevance score s is banded 'high' iff s >= 10,     *)
(* 'medium' iff 5 <= s < 10 and 'low' iff s < 5 (10.0 is high, 9.99 is     *)
(* medium, 5.0 is medium, 4.99 is low).                                    *)
C17_RelevanceBanding ==
    Banded =>
        /\ Band = Some("high") <=> input.score >= 10000
        /\ Band = Some("medium") <=> (5000 <= input.score /\ input.score < 10000)
        /\ Band = Some("low") <=> input.score < 5000

\* the hit of raw score 9.99 has been banded, below the upper band
C17_Witness ==
    /\ Banded
    /\ input.score = 9990
    /\ Band = Some("medium")

Parsed == output.fn = "parse"

\* a written pair has a question and an answer once blanks are trimmed
WellFormed(pair) == Strip(pair.question) # <<>> /\ Strip(pair.answer) # <<>>
AllWellFormed(pairs) == \A i \in 1..Len(pairs) : WellFormed(pairs[i])

\* the pair a written pair stands for: its two texts, trimmed
Meant(pair) == GeneratedQA(Strip(pair.question), Strip(pair.answer), ParseTopic)

(* C18: a text of N >= 1 well-formed plain pairs 'Qk: question Ak: answer' *)
(* parses into exactly N pairs, in the order they are written (not in the  *)
(* order of their labels), each with the question and the answer written   *)
(* between its markers, without leading or trailing whitespace.            *)
C18_PlainPairsInTextOrder ==
    (Parsed /\ ~input.emph /\ Len(input.pairs) >= 1 /\ AllWellFormed(input.pairs)) =>
        output.pairs = [i \in 1..Len(input.pairs) |-> Meant(input.pairs[i])]

\* two padded plain pairs, label 2 written before label 1, have been parsed
C18_Witness ==
    /\ Parsed
    /\ ~input.emph
    /\ Len(input.pairs) = 2
    /\ input.pairs[1].label = 2
    /\ input.pairs[2].label = 1
    /\ input.pairs[1].answer = <<" ", "w", " ", "x", " ">>
    /\ input.pairs[2].question = <<" ", "w", " ", "x", " ">>
    /\ Len(output.pairs) = 2

\* the pairs a text stands for: its well-formed pairs, in the order written
RECURSIVE MeantPairs(_)
MeantPairs(pairs) ==
    IF pairs = <<>> THEN <<>>
    ELSE (IF WellFormed(Head(pairs)) THEN <<Meant(Head(pairs))>> ELSE <<>>)
            \o MeantPairs(Tail(pairs))

(* C19: a pair whose question text or answer text is missing or            *)
(* whitespace-only is dropped from the parser output, and only that pair:  *)
(* the well-formed pairs of the same text are still returned, each with    *)
(* its own answer, which ends at the next question tag or at the end of    *)
(* the text.                                                               *)
C19_OnlyBlankPairsDropped ==
    (Parsed /\ ~input.emph) => output.pairs = MeantPairs(input.pairs)

(* C20: the parser tries the plain convention and, when that recovers no   *)
(* pair, the emphasized one: a text of N well-formed emphasized pairs      *)
(* '**Qn:** question **An:** answer' yields N pairs, and a text that       *)
(* follows neither convention yields the empty sequence.                   *)
C20_EmphasizedPairsCounted ==
    /\ (Parsed /\ input.emph /\ AllWellFormed(input.pairs)) =>
           Len(output.pairs) = Len(input.pairs)
    /\ (Parsed /\ input.pairs = <<>>) => output.pairs = <<>>

\* two well-formed emphasized pairs have been parsed into two pairs
C20_Witness ==
    /\ Parsed
    /\ input.emph
    /\ Len(input.pairs) = 2
    /\ AllWellFormed(input.pairs)
    /\ Len(output.pairs) = 2

Quiescent == \A t \in Threads : pc[t] = "idle"

(* C16: lookup and store each run as one critical section under one lock   *)
(* that covers the entry list, the counters and the flush, so that with    *)
(* concurrent callers no hit or miss increment is lost (hits + misses is   *)
(* the number of completed lookups) and the persisted record always equals *)
(* a state the cache in memory has held.                                   *)
C16_LookupAndStoreAreCriticalSections ==
    /\ Quiescent => hits + misses = completed
    /\ disk.state = "ok" => _load_cache(disk) \in held

\* n upserts that returned, or fewer of which the last one raised
IsUpsertRun(seq, n) ==
    \/ seq = [i \in 1..n |-> "es.index"]
    \/ \E k \in 1..n :
          seq = [i \in 1..k |-> IF i < k THEN "es.index" ELSE "es.index:raised"]

\* the steps of the pipeline in order, each taken when the one before it
\* succeeded: the news fetch, the generation (with the parsing of its text),
\* one upsert per parsed pair
IsPipeline(seq) ==
    IF NewsFailed \/ NewsEmpty THEN seq = <<"news">>
    ELSE IF LlmFailed \/ NothingParsed THEN seq = <<"news", "llm">>
    ELSE /\ Len(seq) >= 2
         /\ SubSeq(seq, 1, 2) = <<"news", "llm">>
         /\ IsUpsertRun(SubSeq(seq, 3, Len(seq)), Len(ParsedPairs))

\* the last request was a generate that passed validation
Generating == request.op = "generate" /\ genResult.called

(* C21: a generate request never queries the search of the index, whether  *)
(* or not the index holds documents: it runs the news fetch, then the      *)
(* generation, then the parsing, then one upsert per parsed pair, which    *)
(* are the steps, in the order, of the search fallback after its search.   *)
C21_GenerateIsUnconditionalPipeline ==
    /\ Generating =>
          /\ ~searchResult.called
          /\ ~Called("es.search")
          /\ IsPipeline(calls)
    /\ FellBack =>
          /\ Head(calls) = "es.search"
          /\ IsPipeline(Tail(calls))

\* a generate over an index that already holds a document has run the
\* whole pipeline and added its pair
C21_Witness ==
    /\ Generating
    /\ writer = <<"index", "generate">>
    /\ calls = <<"news", "llm", "es.index">>
    /\ response.status = 200

\* the last request wrote some of its generated pairs and failed on another
PartialIndexingFailure ==
    /\ request.op \in {"search", "generate"}
    /\ Called("es.index")
    /\ Called("es.index:raised")

\* what the handlers answer when the first upsert raises and no pair is written
TotalIndexingFailure == HTTPException(500, "index")

(* C22 (as claimed): when some but not all of the generated pairs fail to  *)
(* persist during a search or a generate, the response reports a partial   *)
(* indexing failure, distinct from the response to a total failure, and    *)
(* carries a count of the pairs affected.                                  *)
C22_PartialIndexingFailureReported ==
    PartialIndexingFailure =>
        /\ response # TotalIndexingFailure
        /\ \E f \in DOMAIN response \ {"status", "detail"} : response[f] \in Nat

\* the last operation was a lookup answered by the similarity scan
SemanticHit ==
    /\ lookup.op = "get"
    /\ ~lookup.exact
    /\ lookup.returned # None

SimilarityTo(k) == cosine_similarity(get_embedding(lookup.query), cache[k].embedding)

(* C23: on a semantic (non-exact) hit the lookup returns the result of an  *)
(* entry whose cosine similarity to the query embedding is the largest     *)
(* over all stored entries, together with that similarity: no entry of a   *)
(* lower similarity is returned while one of a higher similarity exists.   *)
C23_SemanticHitReturnsBestEntry ==
    SemanticHit =>
        \E k \in 1..Len(cache) :
            /\ SimilarityTo(k) = MaxSimilarity(cache, lookup.query)
            /\ lookup.returned = Some(<<cache[k].result, SimilarityTo(k)>>)

\* the scan met a similar entry first and a more similar one after it, and
\* the lookup returned the second
C23_Witness ==
    /\ SemanticHit
    /\ Len(cache) = 2
    /\ SimilarityTo(1) > 0
    /\ SimilarityTo(2) > SimilarityTo(1)
    /\ cache[1].result # cache[2].result
    /\ lookup.returned = Some(<<cache[2].result, SimilarityTo(2)>>)

(* C24 (as claimed): a search response never holds more than top_k         *)
(* results, for every top_k of 1..50, also when the results come from the  *)
(* generation fallback and not from the index.                             *)
C24_AtMostTopKResults ==
    (request.op = "search" /\ response.status = 200) =>
        Len(response.results) <= request.top_k

\* the text tells of a failed fetch
ReportsError(text) == text.prefix[1] = "Error"

\* the step is a call of the tool (a clear leaves the last output in place)
NewsCall == lookup'.op # "clear" \/ output' # output

(* C25: in the cached news tool an entry is created only after a lookup    *)
(* that returned nothing followed by a fetch that succeeded: a fetch       *)
(* result that reports an error (a timeout included) is never stored, and  *)
(* when the lookup returns a cached result the feed is not fetched.        *)
C25_EntryOnlyAfterMissAndFetch ==
    [][/\ \A k \in 1..Len(cache') : ~ReportsError(cache'[k].result)
       /\ NewsCall =>
            /\ cache' # cache =>
                  /\ output'.cached = "miss"
                  /\ output'.fetched
                  /\ ~ReportsError(output'.text)
                  /\ cache' = Append(cache, Entry(input'.query, output'.text))
            /\ (output'.fn = "google_news" /\ output'.cached = "hit") =>
                  /\ ~output'.fetched
                  /\ cache' = cache
            /\ (output'.fn = "google_news" /\ output'.fetched
                    /\ ReportsError(output'.text)) =>
                  cache' = cache]_vars

\* a fetched text was stored after a miss, and a later call was answered
\* from it without a fetch
C25_Witness ==
    /\ output.fn = "google_news"
    /\ output.cached = "hit"
    /\ ~output.fetched
    /\ Len(cache) = 1
    /\ cache[1].result.prefix = <<"Found ">>
    /\ output.text.result = cache[1].result
    /\ hits = 1
    /\ misses = 1

(* C27 (as claimed): a result returned by google_news(query, days) was     *)
(* fetched for the requested window: a cache hit never serves a result     *)
(* that was fetched under another value of days.                           *)
C27_HitServesRequestedWindow ==
    (output.fn = "google_news" /\ output.cached = "hit") =>
        output.text.result.days = input.days

(* C26 (as claimed): hits is incremented exactly when the lookup returns   *)
(* a result and misses exactly when it returns nothing, for every          *)
(* threshold (also one <= 0) and every cache content: no lookup counts as  *)
(* a hit while returning nothing.                                          *)
C26_CountersAgreeWithReturn ==
    [][lookup'.op = "get" =>
          IF lookup'.returned # None
          THEN hits' = hits + 1 /\ misses' = misses
          ELSE hits' = hits /\ misses' = misses + 1]_vars

\* the score the hit carries: the raw score rounded to 2 decimals
ReturnedScore == output.hit.score[1]

(* C28 (as claimed): the relevance band of a hit agrees with the banding   *)
(* rule applied to the score returned in that hit (the raw score rounded   *)
(* to 2 decimals): no hit has a score >= 10 and a band other than 'high',  *)
(* nor a score >= 5 and the band 'low'.                                    *)
C28_BandAgreesWithReturnedScore ==
    Banded =>
        /\ ReturnedScore >= 10000 => Band = Some("high")
        /\ ReturnedScore >= 5000 => Band # Some("low")

\* the text holds no '**' at its start or at its end
NoResidue(text) == text = <<>> \/ (Head(text) # "**" /\ text[Len(text)] # "**")

(* C29 (as claimed): for a text written in the emphasized convention       *)
(* '**Qn:** question **An:** answer', every question and answer returned   *)
(* is the trimmed text between the markers: no '**' of the markers is      *)
(* left at the start or at the end of a returned question or answer.       *)
C29_EmphasizedPairsWithoutResidue ==
    (Parsed /\ input.emph /\ AllWellFormed(input.pairs)) =>
        /\ output.pairs = [k \in 1..Len(input.pairs) |-> Meant(input.pairs[k])]
        /\ \A k \in 1..Len(output.pairs) :
              /\ NoResidue(output.pairs[k].question)
              /\ NoResidue(output.pairs[k].answer)

====
